---- MODULE Spec2Model ----
(***************************************************************************)
(* One run of the Project Helix script (src/app.py): an uploaded scan is   *)
(* written to a temporary file, loaded, segmented, sliced, windowed,       *)
(* peeled, normalised and turned into the brain and tumor surfaces.        *)
(*                                                                         *)
(* Numbers.  Voxel intensities are integers.  A min-max normalised array   *)
(* is kept exactly, as numerators over one shared denominator:             *)
(*     value[c] = num[c] / (rng + scale * eps),   eps = 1 / EpsInv         *)
(* so orderings and comparisons with a level are decided without rounding. *)
(* Percentiles follow numpy's default (linear) interpolation and are kept  *)
(* multiplied by the denominator of the requested fraction.                *)
(***************************************************************************)
EXTENDS Integers, Sequences, FiniteSets, TLC

\* Longest axis of an uploaded volume.
MaxDim == 8

\* 1 / 1e-8, the epsilon of both min-max normalisations and of the windowing.
EpsInv == 100000000

Min(a, b) == IF a <= b THEN a ELSE b
Max(a, b) == IF a >= b THEN a ELSE b

Range(f) == {f[c] : c \in DOMAIN f}

----------------------------------------------------------------------------
(* Arrays: [shape, data], data a function of 0-based index tuples.         *)

AxisLens == {n \in 1..MaxDim : n \in {1, 2, 4} \/ n = MaxDim}
Shapes == AxisLens \X AxisLens \X AxisLens

Coords(shape) == (0..shape[1]-1) \X (0..shape[2]-1) \X (0..shape[3]-1)
Coords2(shape) == (0..shape[1]-1) \X (0..shape[2]-1)

Size(a) == Cardinality(DOMAIN a.data)

NoArray == [shape |-> <<0, 0, 0>>, data |-> [c \in {} |-> 0]]
NoNorm == [shape |-> <<0, 0, 0>>, num |-> [c \in {} |-> 0], rng |-> 0, scale |-> 1]

\* The scans a user may upload: a decoded 3D volume, or bytes nibabel rejects.
Centre(shape) == <<shape[1] \div 2, shape[2] \div 2, shape[3] \div 2>>
Origin == <<0, 0, 0>>

Flat(shape, v) == [c \in Coords(shape) |-> v]
Spot(shape, p, v) == [c \in Coords(shape) |-> IF c = p THEN v ELSE 0]
Ramp(shape) == [c \in Coords(shape) |-> c[1] + 2 * c[2] + 3 * c[3]]
Plateau(shape, v) == [c \in Coords(shape) |-> IF c = Origin THEN 0 ELSE v]

Contents(shape) ==
    {Flat(shape, 0), Flat(shape, 5), Spot(shape, Centre(shape), 10),
     Spot(shape, Origin, 10), Ramp(shape), Plateau(shape, 5)}

Uploads == {[ok |-> FALSE, image |-> NoArray]}
           \cup UNION {{[ok |-> TRUE, image |-> [shape |-> s, data |-> d]] :
                           d \in Contents(s)} : s \in Shapes}

----------------------------------------------------------------------------
(* numpy: min, max, percentile, clip                                       *)

ArrMin(f) == CHOOSE v \in Range(f) : \A w \in Range(f) : v <= w
ArrMax(f) == CHOOSE v \in Range(f) : \A w \in Range(f) : v >= w

\* The k-th smallest entry (0-based) of the values of f, with repetitions.
OrderStat(f, k) ==
    CHOOSE v \in Range(f) :
        /\ Cardinality({c \in DOMAIN f : f[c] < v}) <= k
        /\ k < Cardinality({c \in DOMAIN f : f[c] <= v})

\* np.percentile(f, 100 * qnum / qden), times qden: linear interpolation
\* between the order statistics around the virtual index q * (n - 1).
Percentile(f, qnum, qden) ==
    LET n == Cardinality(DOMAIN f)
        pos == qnum * (n - 1)
        k == pos \div qden
        fr == pos % qden
        lo == OrderStat(f, k)
        hi == IF fr = 0 THEN lo ELSE OrderStat(f, k + 1)
    IN  qden * lo + fr * (hi - lo)

\* np.clip(x, lo, hi) = minimum(maximum(x, lo), hi)
Clip(x, lo, hi) == Min(Max(x, lo), hi)

\* Sign of a - m * eps for integers a and m >= 0.
SignLessEps(a, m) ==
    IF a > m \div EpsInv THEN 1
    ELSE IF a = m \div EpsInv /\ m % EpsInv = 0 THEN 0
    ELSE -1

----------------------------------------------------------------------------
(* The script's computations                                               *)

\* Slip: the numerator is not shifted by the minimum.
MinMaxNormUnshifted(a) ==
    [shape |-> a.shape,
     num |-> [c \in DOMAIN a.data |-> a.data[c]],
     rng |-> ArrMax(a.data),
     scale |-> 1]

\* (x - x.min()) / (x.max() - x.min() + 1e-8)
MinMaxNorm(a) ==
    LET lo == ArrMin(a.data)
        hi == ArrMax(a.data)
    IN  [shape |-> a.shape,
         num |-> [c \in DOMAIN a.data |-> a.data[c] - lo],
         rng |-> hi - lo,
         scale |-> 1]

\* Slip: >= in place of >.
segmentation_ge(vol) ==
    LET lo == ArrMin(vol.data)
        num == [c \in DOMAIN vol.data |-> vol.data[c] - lo]
        threshold == Percentile(num, 992, 1000)
    IN  [vol_norm |-> [shape |-> vol.shape, num |-> num,
                       rng |-> ArrMax(vol.data) - lo, scale |-> 1],
         mask |-> [shape |-> vol.shape,
                   data |-> [c \in DOMAIN num |-> 1000 * num[c] >= threshold]]]

\* vol_norm > np.percentile(vol_norm, 99.2); both sides share vol_norm's
\* denominator, the percentile is kept times 1000.
vertex_ai_tumor_segmentation(vol) ==
    LET vn == MinMaxNorm(vol)
        threshold == Percentile(vn.num, 992, 1000)
    IN  [vol_norm |-> vn,
         mask |-> [shape |-> vol.shape,
                   data |-> [c \in DOMAIN vn.num |-> 1000 * vn.num[c] > threshold]]]

\* The values an integer st.slider offers: min_value, min_value + step, ...
\* up to max_value (the single value min_value when the two are equal).
SliderValues(min_value, max_value, step) ==
    {v \in min_value..max_value : (v - min_value) % step = 0}

\* Slips: the slice slider runs to shape[2], the peel slider to min(shape)//2.
SliceSliderToLength(vol) == SliderValues(0, vol.shape[3], 1)
PeelSliderToHalf(vol) ==
    SliderValues(0, Min(Min(vol.shape[1], vol.shape[2]), vol.shape[3]) \div 2, 2)

SliceSlider(vol) == SliderValues(0, vol.shape[3] - 1, 1)
PeelSlider(vol) ==
    SliderValues(0, Min(Min(vol.shape[1], vol.shape[2]), vol.shape[3]) \div 4, 2)

\* a[:, :, idx]
Plane(a, idx) ==
    [shape |-> <<a.shape[1], a.shape[2]>>,
     data |-> [c \in Coords2(a.shape) |-> a.data[<<c[1], c[2], idx>>]]]

\* Slip: the window is applied without clipping.
ContrastWindowNoClip(img) ==
    LET low == Percentile(img.data, 2, 100)
        high == Percentile(img.data, 98, 100)
    IN  [shape |-> img.shape,
         num |-> [c \in DOMAIN img.data |-> 100 * img.data[c] - low],
         rng |-> high - low,
         scale |-> 100]

\* low, high = np.percentile(img, (2, 98)); clip; (img - low) / (high - low + 1e-8)
\* in units of 1/100: the denominator is rng + 100 * eps.
ContrastWindow(img) ==
    LET low == Percentile(img.data, 2, 100)
        high == Percentile(img.data, 98, 100)
    IN  [shape |-> img.shape,
         num |-> [c \in DOMAIN img.data |-> Clip(100 * img.data[c], low, high) - low],
         rng |-> high - low,
         scale |-> 100]

\* Slip: np.clip(slice_img, low, high, out=slice_img) writes through the view.
WindowStepInPlace(vol, idx) ==
    LET low == Percentile(Plane(vol, idx).data, 2, 100)
        high == Percentile(Plane(vol, idx).data, 98, 100)
    IN  [volume |-> [vol EXCEPT !.data =
                        [c \in DOMAIN vol.data |->
                            IF c[3] = idx THEN Clip(100 * vol.data[c], low, high) \div 100
                            ELSE vol.data[c]]],
         slice_img |-> ContrastWindow(Plane(vol, idx))]

\* Lines 76-82: slice_img is first a view of volume, then rebound twice to
\* fresh arrays; volume itself is not written.
WindowStep(vol, idx) ==
    [volume |-> vol, slice_img |-> ContrastWindow(Plane(vol, idx))]

\* Python's start:stop on an axis of length n.
PySlice(n, start, stop) ==
    LET at(i) == IF i < 0 THEN Max(i + n, 0) ELSE Min(i, n)
    IN  [start |-> at(start), len |-> Max(at(stop) - at(start), 0)]

\* Slip: the stop index is one short.
CropOneShort(a, shp, d) ==
    LET s1 == PySlice(a.shape[1], d, shp[1] - d - 1)
        s2 == PySlice(a.shape[2], d, shp[2] - d - 1)
        s3 == PySlice(a.shape[3], d, shp[3] - d - 1)
        shape == <<s1.len, s2.len, s3.len>>
    IN  [shape |-> shape,
         data |-> [c \in Coords(shape) |->
                      a.data[<<c[1] + s1.start, c[2] + s2.start, c[3] + s3.start>>]]]

\* a[d : shp[0]-d, d : shp[1]-d, d : shp[2]-d]
Crop(a, shp, d) ==
    LET s1 == PySlice(a.shape[1], d, shp[1] - d)
        s2 == PySlice(a.shape[2], d, shp[2] - d)
        s3 == PySlice(a.shape[3], d, shp[3] - d)
        shape == <<s1.len, s2.len, s3.len>>
    IN  [shape |-> shape,
         data |-> [c \in Coords(shape) |->
                      a.data[<<c[1] + s1.start, c[2] + s2.start, c[3] + s3.start>>]]]

np_any(m) == \E c \in DOMAIN m.data : m.data[c]

\* Sign of value - level at every sample: pv_norm against 0.25, and
\* peeled_tumor.astype(np.uint8) against 0.5.
BrainSigns(pv) ==
    [shape |-> pv.shape,
     data |-> [c \in DOMAIN pv.num |-> SignLessEps(4 * pv.num[c] - pv.rng, pv.scale)]]
TumorSigns(m) ==
    [shape |-> m.shape,
     data |-> [c \in DOMAIN m.data |-> IF m.data[c] THEN 1 ELSE -1]]

\* skimage.measure.marching_cubes on the signs of (sample - level).  The mesh
\* is kept as the set of lattice cubes the surface crosses.
Corners(c) == {<<c[1] + i, c[2] + j, c[3] + k>> : i \in 0..1, j \in 0..1, k \in 0..1}
CrossedCubes(sg) ==
    {c \in Coords(<<sg.shape[1] - 1, sg.shape[2] - 1, sg.shape[3] - 1>>) :
        /\ \E p \in Corners(c) : sg.data[p] > 0
        /\ \E p \in Corners(c) : sg.data[p] <= 0}
marching_cubes(sg) ==
    IF \E i \in 1..3 : sg.shape[i] < 2
    THEN [err |-> "ValueError: Input array must be at least 2x2x2", cubes |-> {}]
    ELSE IF \/ \A c \in DOMAIN sg.data : sg.data[c] < 0
            \/ \A c \in DOMAIN sg.data : sg.data[c] > 0
    THEN [err |-> "ValueError: Surface level must be within volume data range",
          cubes |-> {}]
    ELSE IF CrossedCubes(sg) = {}
    THEN [err |-> "RuntimeError: No surface found at the given iso value", cubes |-> {}]
    ELSE [err |-> "", cubes |-> CrossedCubes(sg)]

Mesh3d(name, color, cubes) == [name |-> name, color |-> color, cubes |-> cubes]

\* Slip: the np.any guard is missing.
TumorSurfaceUnguarded(m, scene) ==
    LET r == marching_cubes(TumorSigns(m))
    IN  [err |-> r.err,
         meshes |-> IF r.err = "" THEN Append(scene, Mesh3d("Tumor", "red", r.cubes))
                    ELSE scene]

\* Lines 145-163: the tumor surface is extracted only from a mask with a
\* true voxel.
TumorSurface(m, scene) ==
    IF np_any(m)
    THEN LET r == marching_cubes(TumorSigns(m))
         IN  [err |-> r.err,
              meshes |-> IF r.err = "" THEN Append(scene, Mesh3d("Tumor", "red", r.cubes))
                         ELSE scene]
    ELSE [err |-> "", meshes |-> scene]

----------------------------------------------------------------------------
VARIABLES pc, err, uploaded_file, tmp_exists, volume, slice_idx, vol_norm,
          tumor_mask_3d, slice_img, tumor_mask_2d, peel_depth, peeled_volume,
          peeled_tumor, pv_norm, meshes

vars == <<pc, err, uploaded_file, tmp_exists, volume, slice_idx, vol_norm,
          tumor_mask_3d, slice_img, tumor_mask_2d, peel_depth, peeled_volume,
          peeled_tumor, pv_norm, meshes>>

NoErr == [at |-> "", kind |-> ""]

Init ==
    /\ pc = "idle"
    /\ err = NoErr
    /\ uploaded_file = [ok |-> FALSE, image |-> NoArray]
    /\ tmp_exists = FALSE
    /\ volume = NoArray
    /\ slice_idx = 0
    /\ vol_norm = NoNorm
    /\ tumor_mask_3d = NoArray
    /\ slice_img = NoNorm
    /\ tumor_mask_2d = NoArray
    /\ peel_depth = 0
    /\ peeled_volume = NoArray
    /\ peeled_tumor = NoArray
    /\ pv_norm = NoNorm
    /\ meshes = <<>>

\* An exception ends the run where it is raised.
Raise(kind) ==
    /\ pc' = "failed"
    /\ err' = [at |-> pc, kind |-> kind]

\* Lines 46-53: a file arrives and is copied to a temporary file that is
\* kept on close (delete=False).
SaveUpload ==
    /\ pc = "idle"
    /\ \E f \in Uploads : uploaded_file' = f
    /\ tmp_exists' = TRUE
    /\ pc' = "saved"
    /\ UNCHANGED <<err, volume, slice_idx, vol_norm, tumor_mask_3d, slice_img,
                   tumor_mask_2d, peel_depth, peeled_volume, peeled_tumor,
                   pv_norm, meshes>>

\* Lines 68-69: nib.load(tmp_path).get_fdata()
LoadMRI ==
    /\ pc = "saved"
    /\ IF uploaded_file.ok
       THEN /\ volume' = uploaded_file.image
            /\ pc' = "loaded"
            /\ err' = err
       ELSE /\ Raise("ImageFileError")
            /\ volume' = volume
    /\ UNCHANGED <<uploaded_file, tmp_exists, slice_idx, vol_norm, tumor_mask_3d,
                   slice_img, tumor_mask_2d, peel_depth, peeled_volume,
                   peeled_tumor, pv_norm, meshes>>

\* Lines 72-73
SelectSlice ==
    /\ pc = "loaded"
    /\ \E i \in SliceSlider(volume) : slice_idx' = i
    /\ pc' = "slice_selected"
    /\ UNCHANGED <<err, uploaded_file, tmp_exists, volume, vol_norm, tumor_mask_3d,
                   slice_img, tumor_mask_2d, peel_depth, peeled_volume,
                   peeled_tumor, pv_norm, meshes>>

\* Line 75
Segment ==
    /\ pc = "slice_selected"
    /\ LET r == vertex_ai_tumor_segmentation(volume)
       IN  /\ vol_norm' = r.vol_norm
           /\ tumor_mask_3d' = r.mask
    /\ pc' = "segmented"
    /\ UNCHANGED <<err, uploaded_file, tmp_exists, volume, slice_idx, slice_img,
                   tumor_mask_2d, peel_depth, peeled_volume, peeled_tumor,
                   pv_norm, meshes>>

\* Lines 76-82; an index past the axis is numpy's IndexError.
SliceAndWindow ==
    /\ pc = "segmented"
    /\ IF slice_idx \in 0..(volume.shape[3] - 1)
       THEN LET r == WindowStep(volume, slice_idx)
            IN  /\ volume' = r.volume
                /\ slice_img' = r.slice_img
                /\ tumor_mask_2d' = Plane(tumor_mask_3d, slice_idx)
                /\ pc' = "windowed"
                /\ err' = err
       ELSE /\ Raise("IndexError")
            /\ UNCHANGED <<volume, slice_img, tumor_mask_2d>>
    /\ UNCHANGED <<uploaded_file, tmp_exists, slice_idx, vol_norm, tumor_mask_3d,
                   peel_depth, peeled_volume, peeled_tumor, pv_norm, meshes>>

\* Lines 86-92
SelectPeel ==
    /\ pc = "windowed"
    /\ \E d \in PeelSlider(volume) : peel_depth' = d
    /\ pc' = "peel_selected"
    /\ UNCHANGED <<err, uploaded_file, tmp_exists, volume, slice_idx, vol_norm,
                   tumor_mask_3d, slice_img, tumor_mask_2d, peeled_volume,
                   peeled_tumor, pv_norm, meshes>>

\* Lines 111-126; min() of an empty array is numpy's ValueError.
PeelAndNormalize ==
    /\ pc = "peel_selected"
    /\ peeled_volume' = Crop(volume, volume.shape, peel_depth)
    /\ peeled_tumor' = Crop(tumor_mask_3d, volume.shape, peel_depth)
    /\ IF Size(peeled_volume') = 0
       THEN /\ Raise("ValueError: zero-size array to reduction operation")
            /\ pv_norm' = pv_norm
       ELSE /\ pv_norm' = MinMaxNorm(peeled_volume')
            /\ pc' = "normalized"
            /\ err' = err
    /\ UNCHANGED <<uploaded_file, tmp_exists, volume, slice_idx, vol_norm,
                   tumor_mask_3d, slice_img, tumor_mask_2d, peel_depth, meshes>>

\* Lines 129-143
BrainSurface ==
    /\ pc = "normalized"
    /\ LET r == marching_cubes(BrainSigns(pv_norm))
       IN  IF r.err = ""
           THEN /\ meshes' = <<Mesh3d("Brain", "lightgray", r.cubes)>>
                /\ pc' = "brain"
                /\ err' = err
           ELSE /\ Raise(r.err)
                /\ meshes' = meshes
    /\ UNCHANGED <<uploaded_file, tmp_exists, volume, slice_idx, vol_norm,
                   tumor_mask_3d, slice_img, tumor_mask_2d, peel_depth,
                   peeled_volume, peeled_tumor, pv_norm>>

\* Lines 145-172
TumorSurfaceAndFigure ==
    /\ pc = "brain"
    /\ LET r == TumorSurface(peeled_tumor, meshes)
       IN  IF r.err = ""
           THEN /\ meshes' = r.meshes
                /\ pc' = "figure"
                /\ err' = err
           ELSE /\ Raise(r.err)
                /\ meshes' = meshes
    /\ UNCHANGED <<uploaded_file, tmp_exists, volume, slice_idx, vol_norm,
                   tumor_mask_3d, slice_img, tumor_mask_2d, peel_depth,
                   peeled_volume, peeled_tumor, pv_norm>>

\* Line 174
RemoveTmp ==
    /\ pc = "figure"
    /\ tmp_exists' = FALSE
    /\ pc' = "done"
    /\ UNCHANGED <<err, uploaded_file, volume, slice_idx, vol_norm, tumor_mask_3d,
                   slice_img, tumor_mask_2d, peel_depth, peeled_volume,
                   peeled_tumor, pv_norm, meshes>>

Next ==
    \/ SaveUpload
    \/ LoadMRI
    \/ SelectSlice
    \/ Segment
    \/ SliceAndWindow
    \/ SelectPeel
    \/ PeelAndNormalize
    \/ BrainSurface
    \/ TumorSurfaceAndFigure
    \/ RemoveTmp

Spec == Init /\ [][Next]_vars

----------------------------------------------------------------------------
(* How far the run has come: the statements before label p have run.       *)

Order == <<"idle", "saved", "loaded", "slice_selected", "segmented", "windowed",
           "peel_selected", "normalized", "brain", "figure", "done">>
Pos(p) == CHOOSE i \in 1..Len(Order) : Order[i] = p
Past(p) == Pos(IF pc = "failed" THEN err.at ELSE pc) >= Pos(p)

MinDim(a) == Min(Min(a.shape[1], a.shape[2]), a.shape[3])
IsConst(a) == \A v, w \in Range(a.data) : v = w
LevelOutside(sg) ==
    \/ \A c \in DOMAIN sg.data : sg.data[c] < 0
    \/ \A c \in DOMAIN sg.data : sg.data[c] > 0
BrainActed == Past("brain") \/ (pc = "failed" /\ err.at = "normalized")

----------------------------------------------------------------------------
\* C1: whenever the brain surface is extracted from a field of at least
\* 2x2x2 samples whose values all lie on one side of the level 0.25, the
\* extraction raises nothing and yields an empty mesh.
C1_OutsideRangeGivesEmptyMesh ==
    (/\ BrainActed
     /\ \A i \in 1..3 : pv_norm.shape[i] >= 2
     /\ LevelOutside(BrainSigns(pv_norm)))
    => (/\ pc # "failed"
        /\ Len(meshes) >= 1
        /\ meshes[1].cubes = {})

\* C10: when a run that handled an upload has ended, normally or by an
\* exception, its temporary file is gone.
C10_TmpRemovedWhenRunEnds ==
    pc \in {"done", "failed"} => ~tmp_exists

\* C2 as stated: on every loaded volume with min(dims) >= 2, depth
\* min(dims)//2 - 1 can be selected and no depth >= min(dims)//2 can.
C2_HalfMinusOneAccepted ==
    (Past("loaded") /\ MinDim(volume) >= 2)
    => (/\ (MinDim(volume) \div 2) - 1 \in PeelSlider(volume)
        /\ \A d \in (MinDim(volume) \div 2)..MaxDim : d \notin PeelSlider(volume))

\* C2 amended: the peel depth in use is an even number in 0..min(dims)//4,
\* no depth d with 2d >= min(dims) can be selected, and peeling leaves every
\* axis with its length less 2d, at least 1.
C2_SelectableDepthsKeepAxes ==
    /\ Past("loaded") =>
          \A d \in 0..MaxDim : 2 * d >= MinDim(volume) => d \notin PeelSlider(volume)
    /\ Past("peel_selected") =>
          /\ peel_depth % 2 = 0
          /\ 0 <= peel_depth /\ peel_depth <= MinDim(volume) \div 4
    /\ Past("normalized") =>
          \A i \in 1..3 : /\ peeled_volume.shape[i] = volume.shape[i] - 2 * peel_depth
                          /\ peeled_volume.shape[i] >= 1
C2_Witness ==
    /\ pc = "normalized"
    /\ peel_depth = 2
    /\ (MinDim(volume) \div 2) - 1 > peel_depth

\* C3: after peeling at the selected depth d, the peeled field and the
\* peeled mask both have shape dim_i - 2d and hold the input's entries at
\* offset d on every axis; at d = 0 they equal the inputs.
C3_PeelIsOffsetCrop ==
    Past("normalized") =>
        LET d == peel_depth
            shape == <<volume.shape[1] - 2 * d, volume.shape[2] - 2 * d,
                       volume.shape[3] - 2 * d>>
        IN  /\ peeled_volume.shape = shape
            /\ peeled_tumor.shape = shape
            /\ DOMAIN peeled_volume.data = Coords(shape)
            /\ DOMAIN peeled_tumor.data = Coords(shape)
            /\ \A c \in Coords(shape) :
                  /\ peeled_volume.data[c] = volume.data[<<c[1] + d, c[2] + d, c[3] + d>>]
                  /\ peeled_tumor.data[c] = tumor_mask_3d.data[<<c[1] + d, c[2] + d, c[3] + d>>]
            /\ d = 0 => (peeled_volume = volume /\ peeled_tumor = tumor_mask_3d)
C3_Witness ==
    /\ pc = "normalized"
    /\ peel_depth = 2
    /\ np_any(peeled_tumor)
    /\ ~IsConst(peeled_volume)

\* C4: once the scene is assembled it is [Brain] when the peeled mask has no
\* true voxel and [Brain, Tumor] when it has one, and no run fails in the
\* tumor stage with an all-false peeled mask.
SceneNames == [i \in 1..Len(meshes) |-> meshes[i].name]
C4_SceneFollowsMask ==
    /\ Past("figure") =>
          SceneNames = IF np_any(peeled_tumor) THEN <<"Brain", "Tumor">> ELSE <<"Brain">>
    /\ (pc = "failed" /\ err.at = "brain") => np_any(peeled_tumor)
C4_Witness ==
    /\ pc = "done"
    /\ np_any(tumor_mask_3d)
    /\ ~np_any(peeled_tumor)
    /\ SceneNames = <<"Brain">>

\* C5: a constant volume gives a vol_norm that is 0 at every voxel, a
\* constant peeled volume gives a pv_norm that is 0 at every voxel, and both
\* denominators (range + 1e-8) are positive.
AllZero(n) == \A c \in DOMAIN n.num : n.num[c] = 0
DenPositive(n) == SignLessEps(n.rng + 1, n.scale) > 0 /\ n.rng >= 0
C5_ConstantNormalisesToZero ==
    /\ (Past("segmented") /\ IsConst(volume)) =>
          (AllZero(vol_norm) /\ DenPositive(vol_norm)
           /\ DOMAIN vol_norm.num = DOMAIN volume.data)
    /\ (Past("normalized") /\ IsConst(peeled_volume)) =>
          (AllZero(pv_norm) /\ DenPositive(pv_norm)
           /\ DOMAIN pv_norm.num = DOMAIN peeled_volume.data)
C5_Witness ==
    /\ pc = "normalized"
    /\ IsConst(volume)
    /\ Size(peeled_volume) > 1
    /\ \E c \in DOMAIN peeled_volume.data : peeled_volume.data[c] = 5
    /\ AllZero(pv_norm)

\* C6: after windowing, every pixel of slice_img lies in [0, 1], and the
\* windowed values are ordered as the slice's original intensities are.
C6_WindowBoundedMonotone ==
    Past("windowed") =>
        /\ DOMAIN slice_img.num = Coords2(volume.shape)
        /\ \A c \in DOMAIN slice_img.num :
              /\ slice_img.num[c] >= 0
              /\ SignLessEps(slice_img.num[c] - slice_img.rng, slice_img.scale) <= 0
        /\ \A a, b \in DOMAIN slice_img.num :
              volume.data[<<a[1], a[2], slice_idx>>] <= volume.data[<<b[1], b[2], slice_idx>>]
                 => slice_img.num[a] <= slice_img.num[b]
C6_Witness ==
    /\ pc = "windowed"
    /\ \E a, b \in DOMAIN slice_img.num :
          /\ slice_img.num[a] = 0
          /\ slice_img.num[b] = slice_img.rng
          /\ slice_img.rng > 0
          /\ volume.data[<<a[1], a[2], slice_idx>>] < ArrMax(Plane(volume, slice_idx).data)
          /\ 100 * volume.data[<<a[1], a[2], slice_idx>>]
                < Percentile(Plane(volume, slice_idx).data, 2, 100)

\* C7: the selected slice index is a valid index of the third axis, the
\* field slice and the mask slice both have shape (X, Y), and the mask slice
\* holds the 3D mask's entries of that plane.
C7_SliceInRangeAndAligned ==
    /\ Past("slice_selected") => (0 <= slice_idx /\ slice_idx < volume.shape[3])
    /\ Past("windowed") =>
          /\ slice_img.shape = <<volume.shape[1], volume.shape[2]>>
          /\ tumor_mask_2d.shape = slice_img.shape
          /\ DOMAIN tumor_mask_2d.data = DOMAIN slice_img.num
          /\ DOMAIN tumor_mask_2d.data = Coords2(volume.shape)
          /\ \A c \in Coords2(volume.shape) :
                tumor_mask_2d.data[c] = tumor_mask_3d.data[<<c[1], c[2], slice_idx>>]
C7_Witness ==
    /\ pc = "windowed"
    /\ slice_idx = volume.shape[3] - 1
    /\ slice_idx > 0
    /\ volume.shape[1] # volume.shape[2]
    /\ np_any(tumor_mask_2d)

\* C8: the mask has the field's shape and is true exactly at the voxels
\* with more than 0.992 * (N - 1) voxels of smaller intensity, which are the
\* voxels above the interpolated 99.2nd percentile; on the 4x4x4 field of
\* zeros with a 10 at (2,2,2) it is true at (2,2,2) only.
C8_MaskIsTopOfRanking ==
    Past("segmented") =>
        LET n == Size(volume)
            below(v) == Cardinality({b \in DOMAIN volume.data : volume.data[b] < v})
            top == {v \in Range(volume.data) : 1000 * below(v) > 992 * (n - 1)}
        IN  /\ tumor_mask_3d.shape = volume.shape
            /\ DOMAIN tumor_mask_3d.data = DOMAIN volume.data
            /\ \A a \in DOMAIN volume.data :
                  tumor_mask_3d.data[a] <=> volume.data[a] \in top
            /\ volume = [shape |-> <<4, 4, 4>>, data |-> Spot(<<4, 4, 4>>, <<2, 2, 2>>, 10)]
                  => \A a \in DOMAIN volume.data :
                         tumor_mask_3d.data[a] <=> a = <<2, 2, 2>>
C8_Witness ==
    /\ pc = "segmented"
    /\ volume = [shape |-> <<4, 4, 4>>, data |-> Spot(<<4, 4, 4>>, <<2, 2, 2>>, 10)]
    /\ tumor_mask_3d.data[<<2, 2, 2>>]

\* C9: no step after loading writes the volume, and no step after
\* segmentation writes the 3D mask.
C9_OriginalsUnchanged ==
    [][/\ Past("loaded") => volume' = volume
       /\ Past("segmented") => tumor_mask_3d' = tumor_mask_3d]_vars
C9_Witness ==
    /\ pc = "done"
    /\ peel_depth = 2
    /\ volume = uploaded_file.image
    /\ peeled_volume # volume
    /\ \E c \in DOMAIN slice_img.num :
          100 * volume.data[<<c[1], c[2], slice_idx>>] # slice_img.num[c]

====
